---------------------------- MODULE Spec2Model ----------------------------
(***************************************************************************)
(* The dialogue controller of the ACME support bot (src/src/App.tsx):      *)
(* intent detection, tool dispatch, the escalation sub-dialogue, tone      *)
(* composition and the timer-driven streaming of replies into the          *)
(* transcript.                                                             *)
(*                                                                         *)
(* Strings the code inspects (the user's input) are sequences of           *)
(* one-character strings, so that trim, toLowerCase and the regular        *)
(* expressions are computed character by character.  Strings the code only *)
(* composes and slices (the replies) are records [id, len]: id is the      *)
(* sequence of fragments the string is built from and len its number of    *)
(* characters; a proper prefix keeps the id and has a smaller len.         *)
(*                                                                         *)
(* Indices into the transcript are 0-based as in the code; the transcript  *)
(* itself is a TLA+ sequence, so code index k is element k + 1.            *)
(***************************************************************************)
EXTENDS Integers, Sequences, FiniteSets, TLC

(***************************************************************************)
(* Bounds of the model.                                                    *)
(***************************************************************************)
\* Number of turns handleSend accepts in one behaviour.
MaxTurns == 3
\* The same under FairSpec.
MaxFairTurns == 2
\* The same under QuerySpec.
MaxQueryTurns == 2
\* Number of words of a text handed to detectIntent under ProbeSpec.
MaxWords == 3
\* Largest character count of a reply text handed to streamModelReply.
MaxTextLen == 2

Min(a, b) == IF a <= b THEN a ELSE b
Max(a, b) == IF a >= b THEN a ELSE b

(***************************************************************************)
(* Characters.                                                             *)
(***************************************************************************)
UpperLetters ==
    <<"A", "B", "C", "D", "E", "F", "G", "H", "I", "J", "K", "L", "M",
      "N", "O", "P", "Q", "R", "S", "T", "U", "V", "W", "X", "Y", "Z">>
LowerLetters ==
    <<"a", "b", "c", "d", "e", "f", "g", "h", "i", "j", "k", "l", "m",
      "n", "o", "p", "q", "r", "s", "t", "u", "v", "w", "x", "y", "z">>
Digits == {"0", "1", "2", "3", "4", "5", "6", "7", "8", "9"}
Range(s) == {s[k] : k \in DOMAIN s}
\* \s of the regular expressions and the characters String.prototype.trim strips.
WhiteSpace == {" ", "\t", "\n", "\r"}
\* The characters '.' does not match.
LineTerminators == {"\n", "\r"}
\* \w, which decides where \b holds.
WordChars == Range(UpperLetters) \cup Range(LowerLetters) \cup Digits \cup {"_"}
\* [a-z0-9-] under the i flag.
IdChars == Range(UpperLetters) \cup Range(LowerLetters) \cup Digits \cup {"-"}

ToLowerChar(c) ==
    IF \E k \in DOMAIN UpperLetters : UpperLetters[k] = c
    THEN LowerLetters[CHOOSE k \in DOMAIN UpperLetters : UpperLetters[k] = c]
    ELSE c
\* String.prototype.toLowerCase
toLowerCase(s) == SubSeq([k \in DOMAIN s |-> ToLowerChar(s[k])], 1, Len(s))

\* String.prototype.trim
trim(s) ==
    IF \A k \in DOMAIN s : s[k] \in WhiteSpace
    THEN << >>
    ELSE LET first == CHOOSE k \in DOMAIN s :
                          /\ s[k] \notin WhiteSpace
                          /\ \A j \in 1..(k - 1) : s[j] \in WhiteSpace
             last  == CHOOSE k \in DOMAIN s :
                          /\ s[k] \notin WhiteSpace
                          /\ \A j \in (k + 1)..Len(s) : s[j] \in WhiteSpace
         IN  SubSeq(s, first, last)

(***************************************************************************)
(* Regular-expression matching, for the shapes the code uses.              *)
(***************************************************************************)
\* The literal w occurs in t starting at position p.
OccursAt(t, w, p) ==
    /\ p >= 1
    /\ p + Len(w) - 1 <= Len(t)
    /\ SubSeq(t, p, p + Len(w) - 1) = w

\* /(w1|w2|...)/.test(t)
ContainsAny(t, words) ==
    \E w \in words : \E p \in 1..Len(t) : OccursAt(t, w, p)

\* /(a1|a2|...).*(b1|b2|...)/.test(t): a lead, then any characters but line
\* terminators, then a tail.
LeadThenTail(t, leads, tails) ==
    \E a \in leads : \E p \in 1..Len(t) :
        /\ OccursAt(t, a, p)
        /\ \E b \in tails : \E q \in (p + Len(a))..Len(t) :
               /\ OccursAt(t, b, q)
               /\ \A k \in (p + Len(a))..(q - 1) : t[k] \notin LineTerminators

\* \b holds between positions p - 1 and p of t.
WordBoundary(t, p) ==
    LET before == p - 1 >= 1 /\ p - 1 <= Len(t) /\ t[p - 1] \in WordChars
        after  == p >= 1 /\ p <= Len(t) /\ t[p] \in WordChars
    IN  before # after

\* The first position at or after p that holds no character of class.
RunEnd(t, p, class) ==
    CHOOSE e \in p..(Len(t) + 1) :
        /\ \A k \in p..(e - 1) : t[k] \in class
        /\ e = Len(t) + 1 \/ t[e] \notin class

\* An absent capture group, an absent optional field.
Undefined == << >>

OrderStatusLead ==
    { <<"w", "h", "e", "r", "e">>,
      <<"s", "t", "a", "t", "u", "s">>,
      <<"t", "r", "a", "c", "k">> }

OrderStatusTail ==
    { <<"o", "r", "d", "e", "r">>,
      <<"p", "a", "c", "k", "a", "g", "e">> }

ShippingEtaLead ==
    { <<"w", "h", "e", "n">>,
      <<"a", "r", "r", "i", "v", "e">>,
      <<"c", "o", "m", "i", "n", "g">>,
      <<"e", "t", "a">>,
      <<"d", "e", "l", "i", "v", "e", "r", "y">> }

ShippingEtaTail ==
    { <<"o", "r", "d", "e", "r">>,
      <<"p", "a", "c", "k", "a", "g", "e">>,
      <<"s", "h", "i", "p", "p", "i", "n", "g">> }

ReturnLead ==
    { <<"r", "e", "t", "u", "r", "n">>,
      <<"e", "x", "c", "h", "a", "n", "g", "e">> }

ReturnTail ==
    { <<"p", "o", "l", "i", "c", "y">>,
      <<"h", "o", "w">>,
      <<"c", "a", "n", " ", "i">> }

RefundLead ==
    { <<"r", "e", "f", "u", "n", "d">> }

RefundTail ==
    { <<"p", "o", "l", "i", "c", "y">>,
      <<"h", "o", "w">>,
      <<"t", "i", "m", "e", "l", "i", "n", "e">> }

AccountWords ==
    { <<"l", "o", "g", "i", "n">>,
      <<"a", "c", "c", "o", "u", "n", "t">>,
      <<"p", "a", "s", "s", "w", "o", "r", "d">>,
      <<"p", "r", "o", "f", "i", "l", "e">>,
      <<"e", "m", "a", "i", "l", " ", "c", "h", "a", "n", "g", "e">> }

EscalateWords ==
    { <<"h", "u", "m", "a", "n">>,
      <<"a", "g", "e", "n", "t">>,
      <<"r", "e", "p", "r", "e", "s", "e", "n", "t", "a", "t", "i", "v", "e">>,
      <<"s", "o", "m", "e", "o", "n", "e">>,
      <<"e", "s", "c", "a", "l", "a", "t", "e">> }

NegativeWords ==
    { <<"a", "n", "g", "r", "y">>,
      <<"u", "p", "s", "e", "t">>,
      <<"f", "r", "u", "s", "t", "r", "a", "t", "e", "d">>,
      <<"b", "a", "d">>,
      <<"h", "a", "t", "e">>,
      <<"t", "e", "r", "r", "i", "b", "l", "e">>,
      <<"w", "o", "r", "s", "t">>,
      <<"u", "n", "a", "c", "c", "e", "p", "t", "a", "b", "l", "e">>,
      <<"l", "a", "t", "e">>,
      <<"d", "e", "l", "a", "y">>,
      <<"b", "r", "o", "k", "e", "n">>,
      <<"m", "i", "s", "s", "i", "n", "g">> }

PositiveWords ==
    { <<"g", "r", "e", "a", "t">>,
      <<"t", "h", "a", "n", "k", "s">>,
      <<"t", "h", "a", "n", "k", " ", "y", "o", "u">>,
      <<"a", "w", "e", "s", "o", "m", "e">>,
      <<"p", "e", "r", "f", "e", "c", "t">>,
      <<"g", "o", "o", "d">>,
      <<"l", "o", "v", "e">> }

AffirmativeWords ==
    { <<"y", "e", "s">>,
      <<"y", "e", "p">>,
      <<"y", "e", "a", "h">>,
      <<"c", "o", "n", "f", "i", "r", "m">>,
      <<"p", "l", "e", "a", "s", "e">> }

(***************************************************************************)
(* Intent detection.                                                       *)
(***************************************************************************)
\* The Intent union; fields a variant does not carry are Undefined.
Intent(type, orderId, postalCode) ==
    [type |-> type, orderId |-> orderId, postalCode |-> postalCode]

\* The capture of (?:order|ord)\s*([a-z0-9-]{5,}) when the marker starts at
\* p: "order" is tried before "ord", \s* and the group are greedy.
IdCaptureAt(t, p) ==
    LET try(m) ==
            IF OccursAt(t, m, p)
            THEN LET q == RunEnd(t, p + Len(m), WhiteSpace)
                     e == RunEnd(t, q, IdChars)
                 IN  IF e - q >= 5 THEN SubSeq(t, q, e - 1) ELSE Undefined
            ELSE Undefined
        long  == try(<<"o", "r", "d", "e", "r">>)
        short == try(<<"o", "r", "d">>)
    IN  IF long # Undefined THEN long ELSE short

\* t.match(/#?(?:order|ord)\s*([a-z0-9-]{5,})/i)?.[1]: the leftmost match.
idMatch(t) ==
    LET hits == {p \in 1..Len(t) : IdCaptureAt(t, p) # Undefined}
    IN  IF hits = {}
        THEN Undefined
        ELSE IdCaptureAt(t, CHOOSE p \in hits : \A r \in hits : p <= r)

\* /\b(\d{5})(?:-\d{4})?\b/ matches with its five digits starting at p.
ZipAt(t, p) ==
    /\ p + 4 <= Len(t)
    /\ \A k \in p..(p + 4) : t[k] \in Digits
    /\ WordBoundary(t, p)
    /\ \/ /\ p + 9 <= Len(t)
          /\ t[p + 5] = "-"
          /\ \A k \in (p + 6)..(p + 9) : t[k] \in Digits
          /\ WordBoundary(t, p + 10)
       \/ WordBoundary(t, p + 5)

\* t.match(/\b(\d{5})(?:-\d{4})?\b/)?.[1]
zipMatch(t) ==
    LET hits == {p \in 1..Len(t) : ZipAt(t, p)}
    IN  IF hits = {}
        THEN Undefined
        ELSE LET p == CHOOSE h \in hits : \A r \in hits : h <= r
             IN  SubSeq(t, p, p + 4)

\* A detectIntent that tests for the shipping ETA before the order status.
detectIntentEtaFirst(text) ==
    LET t == toLowerCase(text)
    IN  IF LeadThenTail(t, ShippingEtaLead, ShippingEtaTail)
        THEN Intent("shipping_eta", idMatch(t), zipMatch(t))
        ELSE IF LeadThenTail(t, OrderStatusLead, OrderStatusTail)
        THEN Intent("order_status", idMatch(t), Undefined)
        ELSE IF LeadThenTail(t, ReturnLead, ReturnTail)
        THEN Intent("return_policy", Undefined, Undefined)
        ELSE IF LeadThenTail(t, RefundLead, RefundTail)
        THEN Intent("refund_policy", Undefined, Undefined)
        ELSE IF ContainsAny(t, AccountWords)
        THEN Intent("account_help", Undefined, Undefined)
        ELSE IF ContainsAny(t, EscalateWords)
        THEN Intent("escalate", Undefined, Undefined)
        ELSE Intent("unknown", Undefined, Undefined)

detectIntent(text) ==
    LET t == toLowerCase(text)
    IN  IF LeadThenTail(t, OrderStatusLead, OrderStatusTail)
        THEN Intent("order_status", idMatch(t), Undefined)
        ELSE IF LeadThenTail(t, ShippingEtaLead, ShippingEtaTail)
        THEN Intent("shipping_eta", idMatch(t), zipMatch(t))
        ELSE IF LeadThenTail(t, ReturnLead, ReturnTail)
        THEN Intent("return_policy", Undefined, Undefined)
        ELSE IF LeadThenTail(t, RefundLead, RefundTail)
        THEN Intent("refund_policy", Undefined, Undefined)
        ELSE IF ContainsAny(t, AccountWords)
        THEN Intent("account_help", Undefined, Undefined)
        ELSE IF ContainsAny(t, EscalateWords)
        THEN Intent("escalate", Undefined, Undefined)
        ELSE Intent("unknown", Undefined, Undefined)

(***************************************************************************)
(* Tools.  A ToolResult is [title, body]; a body is the sequence of the    *)
(* fragments its template is built from, with an order id or postal code   *)
(* contributing its characters.                                            *)
(***************************************************************************)
ToolResult(title, body) == [title |-> title, body |-> body]
\* The null runToolForIntent returns.
NullResult == ToolResult("null", << >>)

statusList == <<"Processing", "Packed", "Shipped", "Out for delivery", "Delivered">>
\* The values of 2 + Math.floor(Math.random() * 4).
EtaDays == 2..5

\* status is the entry Math.random() selects.
toolOrderStatus(orderId, status) ==
    IF orderId = Undefined
    THEN ToolResult("Order status",
             <<"I can check that-please share your order ID (e.g., ORD-12345).">>)
    ELSE ToolResult("Order status",
             <<"Order ">> \o orderId \o <<" is currently: ", status,
               ". If this seems wrong, I can escalate to a human.">>)

\* A toolShippingEta that asks only when both fields are absent.
toolShippingEtaBothAbsent(orderId, postalCode, days) ==
    IF orderId = Undefined /\ postalCode = Undefined
    THEN ToolResult("Shipping ETA",
             <<"Share your order ID and destination ZIP to estimate delivery.">>)
    ELSE ToolResult("Shipping ETA",
             <<"Estimated delivery for ">> \o orderId \o <<" to ">> \o postalCode
                 \o <<": ", "today + ", ToString(days), " days", ".">>)

\* days is the offset Math.random() selects.
toolShippingEta(orderId, postalCode, days) ==
    IF orderId = Undefined \/ postalCode = Undefined
    THEN ToolResult("Shipping ETA",
             <<"Share your order ID and destination ZIP to estimate delivery.">>)
    ELSE ToolResult("Shipping ETA",
             <<"Estimated delivery for ">> \o orderId \o <<" to ">> \o postalCode
                 \o <<": ", "today + ", ToString(days), " days", ".">>)

toolReturnPolicy ==
    ToolResult("Return policy",
        <<"You can return most items within 30 days in original condition. Start in My Orders > Return. Prepaid label provided in eligible regions.">>)

toolRefundPolicy ==
    ToolResult("Refund policy",
        <<"Refunds are issued to the original payment method within 5-7 business days after we receive your return.">>)

toolAccountHelp ==
    ToolResult("Account help",
        <<"For password resets, use Forgot Password on the sign-in page. For email or profile changes, go to Account Settings.">>)

\* A dispatch whose switch lacks the escalate case.
runToolWithoutEscalate(intent, status, days) ==
    CASE intent.type = "order_status" -> toolOrderStatus(intent.orderId, status)
      [] intent.type = "shipping_eta" ->
             toolShippingEta(intent.orderId, intent.postalCode, days)
      [] intent.type = "return_policy" -> toolReturnPolicy
      [] intent.type = "refund_policy" -> toolRefundPolicy
      [] intent.type = "account_help" -> toolAccountHelp
      [] OTHER -> NullResult
runToolForIntent(intent, status, days) ==
    CASE intent.type = "order_status" -> toolOrderStatus(intent.orderId, status)
      [] intent.type = "shipping_eta" ->
             toolShippingEta(intent.orderId, intent.postalCode, days)
      [] intent.type = "return_policy" -> toolReturnPolicy
      [] intent.type = "refund_policy" -> toolRefundPolicy
      [] intent.type = "account_help" -> toolAccountHelp
      [] intent.type = "escalate" ->
             ToolResult("Escalation",
                 <<"I can connect you with a human agent. Please confirm: type 'yes' to proceed or ask anything else to continue with me.">>)
      [] OTHER -> NullResult

(***************************************************************************)
(* Sentiment and tone.                                                     *)
(***************************************************************************)
\* An analyzeSentiment that lets a negative term win over a positive one.
analyzeSentimentNegativeWins(text) ==
    LET t   == toLowerCase(text)
        neg == ContainsAny(t, NegativeWords)
        pos == ContainsAny(t, PositiveWords)
    IN  IF neg THEN "negative"
        ELSE IF pos THEN "positive"
        ELSE "neutral"

analyzeSentiment(text) ==
    LET t   == toLowerCase(text)
        neg == ContainsAny(t, NegativeWords)
        pos == ContainsAny(t, PositiveWords)
    IN  IF neg /\ ~pos THEN "negative"
        ELSE IF pos /\ ~neg THEN "positive"
        ELSE "neutral"

\* /^(yes|yep|yeah|confirm|please)\b/i.test(trimmed)
isAffirmative(trimmed) ==
    LET t == toLowerCase(trimmed)
    IN  \E w \in AffirmativeWords :
            OccursAt(t, w, 1) /\ WordBoundary(t, Len(w) + 1)

\* Inputs the user submits.
InputList ==
    << << >>,
       <<" ", " ">>,
       <<"h", "u", "m", "a", "n">>,
       <<"Y", "e", "s", " ", "p", "l", "e", "a", "s", "e">>,
       <<" ", "n", "o", " ", "t", "h", "a", "n", "k", "s", " ">> >>
Inputs == Range(InputList)

\* Inputs that between them reach every tool, with and without the fields
\* the tools want, in every tone.
QueryList ==
    << << >>,
       <<"h", "u", "m", "a", "n">>,
       <<"Y", "e", "s", " ", "p", "l", "e", "a", "s", "e">>,
       <<"W", "h", "e", "r", "e", " ", "i", "s", " ", "m", "y", " ", "o", "r", "d", "e", "r", " ", "#", "O", "R", "D", "-", "9", "9", "0", "2", "1", "?">>,
       <<"t", "r", "a", "c", "k", " ", "d", "e", "l", "i", "v", "e", "r", "y", " ", "o", "f", " ", "m", "y", " ", "p", "a", "c", "k", "a", "g", "e">>,
       <<"l", "a", "t", "e", "!", " ", "w", "h", "e", "n", " ", "w", "i", "l", "l", " ", "m", "y", " ", "o", "r", "d", "e", "r", " ", "a", "r", "r", "i", "v", "e", "?">>,
       <<"E", "T", "A", " ", "f", "o", "r", " ", "o", "r", "d", "e", "r", " ", "A", "B", "-", "1", "2", "3", "4", " ", "t", "o", " ", "9", "0", "2", "1", "0">>,
       <<"g", "r", "e", "a", "t", " ", "r", "e", "t", "u", "r", "n", " ", "p", "o", "l", "i", "c", "y", "?">>,
       <<"b", "a", "d", " ", "r", "e", "f", "u", "n", "d", " ", "t", "i", "m", "e", "l", "i", "n", "e", ",", " ", "t", "h", "a", "n", "k", "s">>,
       <<"I", " ", "f", "o", "r", "g", "o", "t", " ", "m", "y", " ", "p", "a", "s", "s", "w", "o", "r", "d">> >>
Queries == Range(QueryList)
AllInputList == InputList \o QueryList

\* input.trim(), detectIntent(trimmed), the affirmative test and
\* analyzeSentiment(trimmed), each computed once for every input of the model.
TrimTable ==
    SubSeq([k \in DOMAIN AllInputList |-> trim(AllInputList[k])], 1, Len(AllInputList))
IntentTable ==
    SubSeq([k \in DOMAIN AllInputList |-> detectIntent(TrimTable[k])], 1, Len(AllInputList))
AffirmativeTable ==
    SubSeq([k \in DOMAIN AllInputList |-> isAffirmative(TrimTable[k])], 1, Len(AllInputList))
SentimentTable ==
    SubSeq([k \in DOMAIN AllInputList |-> analyzeSentiment(TrimTable[k])], 1, Len(AllInputList))
\* The two tests of analyzeSentiment on every input of the model.
NegativeTable ==
    SubSeq([k \in DOMAIN AllInputList |->
                ContainsAny(toLowerCase(TrimTable[k]), NegativeWords)],
           1, Len(AllInputList))
PositiveTable ==
    SubSeq([k \in DOMAIN AllInputList |->
                ContainsAny(toLowerCase(TrimTable[k]), PositiveWords)],
           1, Len(AllInputList))
TrimIndex(trimmed) == CHOOSE k \in DOMAIN TrimTable : TrimTable[k] = trimmed
Trimmed(input) == TrimTable[CHOOSE k \in DOMAIN AllInputList : AllInputList[k] = input]
Detected(trimmed) == IntentTable[TrimIndex(trimmed)]
Affirmative(trimmed) == AffirmativeTable[TrimIndex(trimmed)]
Sentiment(trimmed) == SentimentTable[TrimIndex(trimmed)]
HasNegative(trimmed) == NegativeTable[TrimIndex(trimmed)]
HasPositive(trimmed) == PositiveTable[TrimIndex(trimmed)]

\* reply is a sequence of fragments.
applyTone(reply, userText) ==
    LET sentiment == Sentiment(userText)
    IN  IF sentiment = "negative"
        THEN <<"I'm really sorry for the trouble. ">> \o reply
        ELSE IF sentiment = "positive"
        THEN <<"Happy to hear that! ">> \o reply
        ELSE reply

(***************************************************************************)
(* Strings that are composed and sliced.                                   *)
(***************************************************************************)
Str(id, len) == [id |-> id, len |-> len]
EmptyStr == Str(<< >>, 0)
\* The content of a user message: the characters typed, trimmed.
UserStr(chars) == Str(chars, Len(chars))
\* text.slice(0, n)
Slice(text, n) ==
    LET m == Min(Max(n, 0), text.len)
    IN  IF m = 0 THEN EmptyStr ELSE Str(text.id, m)
IsPrefix(s, text) == s = Slice(text, s.len)

\* Character counts of a composed reply (tool, ticket or model text with its
\* tone prefix) that the model considers.
ReplyLens == {MaxTextLen}
\* The model's own text may be empty, and stays so under a neutral tone.
ModelReplyLens(userText) ==
    IF Sentiment(userText) = "neutral" THEN {0} \cup ReplyLens ELSE ReplyLens

ChatMessage(role, content) == [role |-> role, content |-> content]

Greeting ==
    ChatMessage("model",
        Str(<<"Hi! I'm your ACME support assistant. How can I help today?">>, 58))
Apology ==
    ChatMessage("model",
        Str(<<"Sorry, I ran into a problem generating a response. Please try again.">>, 68))

\* Values of Math.random().toString(36).slice(2, 8).toUpperCase().
TicketIds == {"K3J9QZ"}
ticketReply(ticketId) ==
    <<"Okay, connecting you to a human agent. I created support ticket #",
      ticketId, ". An agent will reach out by email shortly.">>
\* `${toolResult.title}:\n${toolResult.body}`
toolReply(toolResult) == <<toolResult.title, ":\n">> \o toolResult.body
\* Texts result.response.text() returns.
ModelTexts == {<<"(text generated by the external model)">>}

InitialSuggestions == <<"Where is my order?", "What's your return policy?", "Talk to a human">>
TicketSuggestions == <<"Add more details", "Update my email", "Anything else?">>
ModelSuggestions == <<"Track an order", "Returns & refunds", "Talk to a human">>
\* The switch on intent.type after a tool reply.
toolSuggestions(type) ==
    CASE type = "order_status" ->
             <<"Track shipping ETA", "This seems wrong -> escalate", "Anything else?">>
      [] type = "shipping_eta" ->
             <<"Remind me if delayed", "Change delivery address", "Talk to a human">>
      [] type = "return_policy" ->
             <<"Start a return", "Refund timeline", "Anything else?">>
      [] type = "refund_policy" ->
             <<"Check return status", "Payment method changes", "Talk to a human">>
      [] type = "account_help" ->
             <<"Reset password", "Change email", "Close account">>
      [] type = "escalate" ->
             <<"Yes, connect me", "No, continue here", "Anything else?">>
      [] OTHER -> InitialSuggestions

(***************************************************************************)
(* State.                                                                  *)
(***************************************************************************)
VARIABLES
    messages,           \* the transcript
    loading,            \* a turn is awaiting its response
    suggestions,        \* the quick replies
    lastIntentRef,      \* lastIntentRef.current
    streamingIndex,     \* Null or the index setStreamingIndex was given
    streamingTimerRef,  \* Null or the stream whose timer was scheduled last
    streams,            \* one closure (fullText, startIndex, i) per call of
                        \* streamModelReply, in call order
    timers,             \* the pending setTimeout(step, 16) callbacks, oldest
                        \* first, each named by its stream
    pending,            \* the handleSend suspended at model.generateContent
    turns,              \* number of turns accepted
    calls,              \* history: calls of detectIntent and of the model
    lastPath,           \* history: the path the latest accepted turn took
                        \* ("ticket", "tool", "model", then "resolved" or
                        \* "rejected" once the model call settles)
    event,              \* history: the operation that led here, with the
                        \* input submitted if it is handleSend
    probe               \* a text handed to detectIntent and analyzeSentiment
                        \* on their own, with what they returned

vars == <<messages, loading, suggestions, lastIntentRef, streamingIndex,
          streamingTimerRef, streams, timers, pending, turns, calls,
          lastPath, event, probe>>

\* null of a number | null.
Null == -1

NoPending == [active |-> FALSE, trimmed |-> << >>, messagesLength |-> 0]
Event(op, input) == [op |-> op, input |-> input]
NoProbe == [text |-> << >>, intent |-> Intent("none", Undefined, Undefined),
            sentiment |-> "none"]

Init ==
    /\ messages = <<Greeting>>
    /\ loading = FALSE
    /\ suggestions = InitialSuggestions
    /\ lastIntentRef = Intent("unknown", Undefined, Undefined)
    /\ streamingIndex = Null
    /\ streamingTimerRef = Null
    /\ streams = << >>
    /\ timers = << >>
    /\ pending = NoPending
    /\ turns = 0
    /\ calls = [detect |-> 0, model |-> 0]
    /\ lastPath = "none"
    /\ event = Event("other", << >>)
    /\ probe = NoProbe

(***************************************************************************)
(* Streaming.                                                              *)
(***************************************************************************)
StepDivisor == 120
\* A step size without its lower bound of 1.
StepSizeUnbounded(fullText) == fullText.len \div StepDivisor
\* Math.max(1, Math.floor(fullText.length / 120))
StepSize(fullText) == Max(1, fullText.len \div StepDivisor)

\* A step that always writes to the last message.
StepTargetLast(startIndex, length) == length - 1
\* Math.min(startIndex, copy.length - 1)
StepTarget(startIndex, length) == Min(startIndex, length - 1)

\* An updater that does not look at the role of its target.
StepUpdaterAnyRole(prev, startIndex, fullText, j) ==
    LET at == StepTarget(startIndex, Len(prev))
    IN  IF at < 0
        THEN prev
        ELSE [prev EXCEPT ![at + 1] = ChatMessage("model", Slice(fullText, j))]
\* The updater step() hands to setMessages, run on prev with i read as j.
StepUpdater(prev, startIndex, fullText, j) ==
    LET at == StepTarget(startIndex, Len(prev))
    IN  IF at < 0 \/ prev[at + 1].role # "model"
        THEN prev
        ELSE [prev EXCEPT ![at + 1] = ChatMessage("model", Slice(fullText, j))]

\* The values of i the updater of stream s may read: React runs it either
\* at once (before i += ...) or when it renders (after).
UpdaterReads(s) == {s.i, s.i + StepSize(s.fullText)}
\* The same for the step() that streamModelReply itself runs, where i is 0.
FirstReads(fullText) == {0, StepSize(fullText)}

\* The index streamModelReply takes for the message it appends:
\* messages.length of the render whose handleSend is running.
StartIndex(messagesLength) == messagesLength

\* One run of step() for stream sid on the streaming state v.
step(v, sid, j) ==
    LET s  == v.streams[sid]
        i2 == s.i + StepSize(s.fullText)
        more == i2 <= s.fullText.len
    IN  [messages |-> StepUpdater(v.messages, s.startIndex, s.fullText, j),
         streams |-> [v.streams EXCEPT ![sid].i = i2],
         timers |-> IF more THEN Append(v.timers, sid) ELSE v.timers,
         streamingTimerRef |-> IF more THEN sid ELSE v.streamingTimerRef,
         streamingIndex |-> IF more THEN v.streamingIndex ELSE Null]

\* A streamModelReply that appends a typing placeholder instead of "".
streamModelReplyPlaceholder(msgs, fullText, messagesLength, j) ==
    LET sid == Len(streams) + 1
        s == [fullText |-> fullText,
              startIndex |-> StartIndex(messagesLength),
              i |-> 0,
              turn |-> turns + (IF pending.active THEN 0 ELSE 1),
              appendedAt |-> Len(msgs)]
        v == [messages |-> Append(msgs, ChatMessage("model", Str(<<"...">>, 3))),
              streams |-> Append(streams, s),
              timers |-> timers,
              streamingTimerRef |-> streamingTimerRef,
              streamingIndex |-> s.startIndex]
    IN  step(v, sid, j)

\* streamModelReply(fullText) called from the render whose transcript held
\* messagesLength messages, the transcript now being msgs.  The fields turn
\* and appendedAt of the closure are history: the turn that started the
\* stream and the index at which its empty message was appended.
streamModelReply(msgs, fullText, messagesLength, j) ==
    LET sid == Len(streams) + 1
        s == [fullText |-> fullText,
              startIndex |-> StartIndex(messagesLength),
              i |-> 0,
              turn |-> turns + (IF pending.active THEN 0 ELSE 1),
              appendedAt |-> Len(msgs)]
        v == [messages |-> Append(msgs, ChatMessage("model", EmptyStr)),
              streams |-> Append(streams, s),
              timers |-> timers,
              streamingTimerRef |-> streamingTimerRef,
              streamingIndex |-> s.startIndex]
    IN  step(v, sid, j)

\* The streaming state v becomes the next state.
Streamed(v) ==
    /\ messages' = v.messages
    /\ streams' = v.streams
    /\ timers' = v.timers
    /\ streamingTimerRef' = v.streamingTimerRef
    /\ streamingIndex' = v.streamingIndex

\* A timer fires: timers of equal delay fire in the order they were set.
TimerFire ==
    /\ timers # << >>
    /\ LET sid == Head(timers)
           v == [messages |-> messages, streams |-> streams,
                 timers |-> Tail(timers),
                 streamingTimerRef |-> streamingTimerRef,
                 streamingIndex |-> streamingIndex]
       IN  \E j \in UpdaterReads(streams[sid]) : Streamed(step(v, sid, j))
    /\ event' = Event("other", << >>)
    /\ UNCHANGED <<loading, suggestions, lastIntentRef, pending, turns, calls,
                   lastPath, probe>>

(***************************************************************************)
(* The dialogue controller.                                                *)
(***************************************************************************)
(***************************************************************************)
(* handleSend reads messages, loading and input from the render it was     *)
(* created in.  React renders after every event, and an accepted           *)
(* handleSend comes from a render with loading = false, which shows every  *)
(* message appended so far, so its closure equals the current state.  The  *)
(* continuation after the await of model.generateContent still uses the    *)
(* closure of the render handleSend started in (pending.messagesLength).   *)
(* Nothing can run between handleSend and its continuation after           *)
(* `await runToolForIntent(intent)`, which resolves in microtasks: the     *)
(* ticket and tool paths are one step each.                                *)
(***************************************************************************)
\* A handleSend whose finally block is missing.
LoadingLeftOn == TRUE
\* The value the last setLoading of handleSend leaves, on every path.
FinallyLoading == FALSE

\* A guard that forgets the turn in flight.
RejectsEmptyOnly(trimmed) == trimmed = << >>
\* if (!trimmed || loading) return;
Rejects(trimmed) == trimmed = << >> \/ loading

\* The entries of statusList and the day offsets Math.random() can select
\* for this intent (one value when the tool draws no random number).
StatusChoices(intent) ==
    IF intent.type = "order_status" /\ intent.orderId # Undefined
    THEN Range(statusList) ELSE {statusList[1]}
DayChoices(intent) ==
    IF /\ intent.type = "shipping_eta"
       /\ intent.orderId # Undefined
       /\ intent.postalCode # Undefined
    THEN EtaDays ELSE {2}

\* A confirmation path that wants the bare word.
TicketPathExact(trimmed) ==
    lastIntentRef.type = "escalate" /\ toLowerCase(trimmed) = <<"y", "e", "s">>
\* The guard of the escalation confirmation path.
TicketPath(trimmed) ==
    lastIntentRef.type = "escalate" /\ Affirmative(trimmed)

\* A catch block that builds on the transcript of its render, which lacks the
\* turn's user message.
CatchUpdaterStale(prev) == Append(SubSeq(prev, 1, Len(prev) - 1), Apology)
\* A catch block that swallows the error.
CatchUpdaterSilent(prev) == prev
\* The catch block's update of the transcript.
CatchUpdater(prev) == Append(prev, Apology)

\* handleSend returns at once: empty input, or a turn in flight.
SendRejected(input) ==
    /\ Rejects(Trimmed(input))
    /\ event' = Event("handleSend", input)
    /\ UNCHANGED <<messages, loading, suggestions, lastIntentRef, streamingIndex,
                   streamingTimerRef, streams, timers, pending, turns, calls,
                   lastPath, probe>>

\* handleSend on the escalation confirmation path.
SendTicket(input) ==
    LET trimmed == Trimmed(input)
        nextMessages == Append(messages, ChatMessage("user", UserStr(trimmed)))
    IN  /\ ~Rejects(trimmed)
        /\ turns < MaxTurns
        /\ TicketPath(trimmed)
        /\ \E ticketId \in TicketIds, n \in ReplyLens :
               LET fullText == Str(applyTone(ticketReply(ticketId), trimmed), n)
               IN  \E j \in FirstReads(fullText) :
                       Streamed(streamModelReply(nextMessages, fullText,
                                                 Len(messages), j))
        /\ suggestions' = TicketSuggestions
        /\ loading' = FinallyLoading
        /\ turns' = turns + 1
        /\ lastPath' = "ticket"
        /\ event' = Event("handleSend", input)
        /\ UNCHANGED <<lastIntentRef, pending, calls, probe>>

\* handleSend answered by a tool.
SendTool(input) ==
    LET trimmed == Trimmed(input)
        nextMessages == Append(messages, ChatMessage("user", UserStr(trimmed)))
        intent == Detected(trimmed)
    IN  /\ ~Rejects(trimmed)
        /\ turns < MaxTurns
        /\ ~TicketPath(trimmed)
        /\ \E status \in StatusChoices(intent), days \in DayChoices(intent) :
               LET toolResult == runToolForIntent(intent, status, days)
               IN  /\ toolResult # NullResult
                   /\ \E n \in ReplyLens :
                          LET fullText ==
                                  Str(applyTone(toolReply(toolResult), trimmed), n)
                          IN  \E j \in FirstReads(fullText) :
                                  Streamed(streamModelReply(nextMessages, fullText,
                                                            Len(messages), j))
        /\ lastIntentRef' = intent
        /\ suggestions' = toolSuggestions(intent.type)
        /\ loading' = FinallyLoading
        /\ turns' = turns + 1
        /\ calls' = [calls EXCEPT !.detect = @ + 1]
        /\ lastPath' = "tool"
        /\ event' = Event("handleSend", input)
        /\ UNCHANGED <<pending, probe>>

\* handleSend up to its await of model.generateContent.
SendModel(input) ==
    LET trimmed == Trimmed(input)
        nextMessages == Append(messages, ChatMessage("user", UserStr(trimmed)))
        intent == Detected(trimmed)
    IN  /\ ~Rejects(trimmed)
        /\ turns < MaxTurns
        /\ ~TicketPath(trimmed)
        /\ runToolForIntent(intent, statusList[1], 2) = NullResult
        /\ messages' = nextMessages
        /\ lastIntentRef' = intent
        /\ loading' = TRUE
        /\ pending' = [active |-> TRUE, trimmed |-> trimmed,
                       messagesLength |-> Len(messages)]
        /\ turns' = turns + 1
        /\ calls' = [detect |-> calls.detect + 1, model |-> calls.model + 1]
        /\ lastPath' = "model"
        /\ event' = Event("handleSend", input)
        /\ UNCHANGED <<suggestions, streamingIndex, streamingTimerRef, streams,
                       timers, probe>>

\* model.generateContent resolves and result.response.text() returns.
ModelResolve ==
    /\ pending.active
    /\ \E text \in ModelTexts, n \in ModelReplyLens(pending.trimmed) :
           LET fullText == Str(applyTone(text, pending.trimmed), n)
           IN  \E j \in FirstReads(fullText) :
                   Streamed(streamModelReply(messages, fullText,
                                             pending.messagesLength, j))
    /\ suggestions' = ModelSuggestions
    /\ loading' = FinallyLoading
    /\ pending' = NoPending
    /\ lastPath' = "resolved"
    /\ event' = Event("other", << >>)
    /\ UNCHANGED <<lastIntentRef, turns, calls, probe>>

\* model.generateContent rejects, or result.response.text() throws.
ModelReject ==
    /\ pending.active
    /\ messages' = CatchUpdater(messages)
    /\ loading' = FinallyLoading
    /\ pending' = NoPending
    /\ lastPath' = "rejected"
    /\ event' = Event("other", << >>)
    /\ UNCHANGED <<suggestions, lastIntentRef, streamingIndex, streamingTimerRef,
                   streams, timers, turns, calls, probe>>

handleSend ==
    \E input \in Inputs :
        \/ SendRejected(input)
        \/ SendTicket(input)
        \/ SendTool(input)
        \/ SendModel(input)

Next ==
    \/ handleSend
    \/ ModelResolve
    \/ ModelReject
    \/ TimerFire

Spec == Init /\ [][Next]_vars

\* The external model call settles: it resolves or it fails.
ModelSettles == ModelResolve \/ ModelReject

\* The same program over fewer turns, with every model call settling.
FairSend == handleSend /\ turns' <= MaxFairTurns
FairNext ==
    \/ FairSend
    \/ ModelResolve
    \/ ModelReject
    \/ TimerFire
FairSpec == Init /\ [][FairNext]_vars /\ WF_vars(ModelSettles)

\* The same with the browser firing every timer it was given.
TimedSpec ==
    Init /\ [][FairNext]_vars /\ WF_vars(ModelSettles) /\ WF_vars(TimerFire)

\* The same program over fewer turns, with the inputs that reach every tool.
QuerySend ==
    \E input \in Queries :
        \/ SendRejected(input)
        \/ /\ turns < MaxQueryTurns
           /\ \/ SendTicket(input)
              \/ SendTool(input)
              \/ SendModel(input)
QueryNext ==
    \/ QuerySend
    \/ ModelResolve
    \/ ModelReject
    \/ TimerFire
QuerySpec == Init /\ [][QueryNext]_vars

(***************************************************************************)
(* detectIntent and analyzeSentiment on their own: one text is drawn and   *)
(* handed to both.  The texts are the queries above and every sequence of  *)
(* at most MaxWords words of WordList, joined by single spaces.            *)
(***************************************************************************)
WordList ==
    << <<"w", "h", "e", "r", "e">>,
       <<"w", "h", "e", "n">>,
       <<"o", "r", "d", "e", "r">>,
       <<"r", "e", "t", "u", "r", "n">>,
       <<"r", "e", "f", "u", "n", "d">>,
       <<"h", "o", "w">>,
       <<"a", "c", "c", "o", "u", "n", "t">>,
       <<"h", "u", "m", "a", "n">>,
       <<"l", "a", "t", "e">>,
       <<"t", "h", "a", "n", "k", "s">> >>
RECURSIVE Join(_)
Join(ws) == IF Len(ws) = 1 THEN ws[1] ELSE ws[1] \o <<" ">> \o Join(Tail(ws))
WordTexts ==
    {Join(ws) : ws \in UNION {[1..n -> Range(WordList)] : n \in 1..MaxWords}}
Texts == WordTexts \cup (Queries \ {<< >>})

Probe(text) ==
    /\ probe = NoProbe
    /\ probe' = [text |-> text,
                 intent |-> detectIntent(text),
                 sentiment |-> analyzeSentiment(text)]
    /\ UNCHANGED <<messages, loading, suggestions, lastIntentRef, streamingIndex,
                   streamingTimerRef, streams, timers, pending, turns, calls,
                   lastPath, event>>
ProbeNext == \E text \in Texts : Probe(text)
ProbeSpec == Init /\ [][ProbeNext]_vars

(***************************************************************************)
(* Properties.                                                             *)
(***************************************************************************)
\* Stream sid has run its last step: no timer of it is or will be pending.
Finished(sid) == streams[sid].i > streams[sid].fullText.len
\* The message stream sid appended.
AppendedBy(sid) == messages[streams[sid].appendedAt + 1]
\* This step is an accepted handleSend.
Accepted == turns' = turns + 1
\* The trimmed input of the handleSend this step performs.
Submitted == trim(event'.input)

\* C1: every stream ends with the message it appended holding exactly the
\* full text: once a stream has run its last step, the content of its
\* message equals fullText.
C1_StreamingCompleteness ==
    \A sid \in DOMAIN streams :
        Finished(sid) => AppendedBy(sid).content = streams[sid].fullText

\* C2: once a newer turn has been accepted, a stream started by an earlier
\* turn runs no further step (no transcript update, no further timer).
C2_EarlierStreamSuperseded ==
    [][\A sid \in DOMAIN streams :
           streams[sid].turn < turns =>
               /\ streams'[sid].i = streams[sid].i
               /\ ~(\E k \in DOMAIN timers' : timers'[k] = sid)]_vars

\* C3: the content of the message a stream appended is always a prefix of
\* that stream's own text, whatever steps of other streams run meanwhile.
C3_CancellationSafety ==
    \A sid \in DOMAIN streams :
        IsPrefix(AppendedBy(sid).content, streams[sid].fullText)

\* A step of the first stream ran after the second turn's stream started:
\* its timer was set again behind the second stream's.
C3_Witness ==
    /\ Len(streams) >= 2
    /\ streams[1].turn < streams[2].turn
    /\ timers = <<2, 1>>
    /\ streams[1].fullText.id # streams[2].fullText.id

\* C4: while a stream is in flight and its message is still the last one,
\* the index it targets, and the index recorded as streaming, is the index
\* of that last message.
C4_TargetsLastMessage ==
    \A sid \in DOMAIN streams :
        (~Finished(sid) /\ streams[sid].appendedAt = Len(messages) - 1) =>
            /\ streams[sid].startIndex = Len(messages) - 1
            /\ sid = Len(streams) => streamingIndex = Len(messages) - 1

\* C5: when the previous turn was classified as escalate and the accepted
\* input is affirmative, the turn streams the ticket confirmation and calls
\* neither detectIntent nor the external model.
C5_EscalationRoundTrip ==
    [][(/\ Accepted
        /\ lastPath = "tool"
        /\ lastIntentRef.type = "escalate"
        /\ isAffirmative(Submitted)) =>
           /\ lastPath' = "ticket"
           /\ calls' = calls
           /\ ~pending'.active
           /\ Len(streams') = Len(streams) + 1
           /\ \E ticketId \in TicketIds :
                  streams'[Len(streams')].fullText.id =
                      applyTone(ticketReply(ticketId), Submitted)]_vars

\* The confirmation was just streamed in answer to an escalation offer.
C5_Witness ==
    /\ event.op = "handleSend"
    /\ lastPath = "ticket"
    /\ turns = 2
    /\ isAffirmative(trim(event.input))

\* C6: after a turn that produced a ticket confirmation, lastIntent is no
\* longer escalate.
C6_PendingClearedByTicket ==
    lastPath = "ticket" => lastIntentRef.type # "escalate"

\* C7: after an escalation offer a non-affirmative input is classified and
\* stored as lastIntent; and a ticket confirmation is produced only when the
\* turn immediately before was itself classified as escalate.
C7_OfferLapses ==
    [][Accepted =>
           /\ (/\ lastPath = "tool"
               /\ lastIntentRef.type = "escalate"
               /\ ~isAffirmative(Submitted)) =>
                  /\ lastIntentRef' = detectIntent(Submitted)
                  /\ calls'.detect = calls.detect + 1
           /\ lastPath' = "ticket" =>
                  (lastPath = "tool" /\ lastIntentRef.type = "escalate")]_vars

\* C8: a handleSend with an empty or whitespace-only input, or while loading,
\* changes nothing and calls neither detectIntent nor the external model.
C8_RejectedIsNoOp ==
    [][(event'.op = "handleSend" /\ (Submitted = << >> \/ loading)) =>
           UNCHANGED <<messages, loading, suggestions, lastIntentRef,
                       streamingIndex, streamingTimerRef, streams, timers,
                       pending, turns, calls, lastPath>>]_vars

\* A non-empty input was submitted while the model call was in flight.
C8_Witness ==
    /\ event.op = "handleSend"
    /\ loading
    /\ pending.active
    /\ trim(event.input) # << >>
    /\ trim(event.input) # pending.trimmed

\* C9: when the model call fails, the apology is appended once, right after
\* the user's message of the turn; no stream is started for the turn, the
\* model is not called again and loading is cleared.
C9_ModelFailure ==
    [][(pending.active /\ lastPath' = "rejected") =>
           /\ messages[Len(messages)] =
                  ChatMessage("user", UserStr(pending.trimmed))
           /\ messages' = Append(messages, Apology)
           /\ streams' = streams
           /\ timers' = timers
           /\ \A sid \in DOMAIN streams' : streams'[sid].turn # turns'
           /\ calls' = calls
           /\ loading' = FALSE
           /\ ~pending'.active]_vars

\* The model call of the latest turn has just failed.
C9_Witness ==
    /\ lastPath = "rejected"
    /\ messages[Len(messages)] = Apology
    /\ messages[Len(messages) - 1].role = "user"

\* C10: every accepted turn returns to Idle: the ticket and tool paths leave
\* loading false, and a turn awaiting the model gets loading false once the
\* call settles.
C10_ReturnsToIdle ==
    /\ [][(Accepted /\ lastPath' \in {"ticket", "tool"}) => ~loading']_vars
    /\ loading ~> ~loading

\* A turn that awaited the model has returned to Idle and a later turn was
\* accepted.
C10_Witness ==
    /\ ~loading
    /\ turns >= 2
    /\ \E k \in DOMAIN messages :
           messages[k] = Apology /\ k < Len(messages)

\* The trimmed text of the input of the handleSend this step performs, and
\* the intent detectIntent returns for it.
Text == Trimmed(event'.input)
Classified == Detected(Text)
\* The stream this step starts.
Started == streams'[Len(streams')]

\* C11: dispatch returns null exactly for the unknown intent; an accepted
\* turn calls the external model if and only if it did not take the
\* confirmation path and its intent is unknown; for any other intent the
\* turn streams the tool's reply and no model call is made or left pending.
\* No other step calls the model.
C11_ModelOnlyForUnknown ==
    [][/\ Accepted =>
              \E intent \in {Classified}, text \in {Text} :
              LET modelTurn == lastPath' # "ticket" /\ intent.type = "unknown"
                  toolTurn == lastPath' # "ticket" /\ intent.type # "unknown"
              IN  /\ \A status \in Range(statusList), days \in EtaDays :
                         runToolForIntent(intent, status, days) = NullResult
                             <=> intent.type = "unknown"
                  /\ calls'.model = calls.model + 1 <=> modelTurn
                  /\ calls'.model = calls.model <=> ~modelTurn
                  /\ toolTurn =>
                         /\ ~pending'.active
                         /\ Len(streams') = Len(streams) + 1
                         /\ \E status \in Range(statusList), days \in EtaDays :
                                Started.fullText.id =
                                    applyTone(toolReply(runToolForIntent(
                                                  intent, status, days)), text)
       /\ ~Accepted => calls'.model = calls.model]_vars

\* A turn the external model was called for, and failed, was followed by a
\* turn the refund tool answered.
C11_Witness ==
    /\ calls.model = 1
    /\ turns = 2
    /\ lastPath = "tool"
    /\ lastIntentRef.type = "refund_policy"
    /\ Len(streams) = 1

\* C12: the transcript is append-only.  Every step keeps the role at every
\* existing position; an accepted turn appends the user's message and at
\* most one model message behind it; any other step appends nothing, or the
\* one model message of the turn that awaited the external model.  So the
\* transcript holds one user message per accepted turn, and never two model
\* messages in a row.
C12_AppendOnly ==
    /\ [][/\ Len(messages') >= Len(messages)
          /\ \A k \in DOMAIN messages : messages'[k].role = messages[k].role
          /\ Accepted =>
                 /\ Len(messages') \in {Len(messages) + 1, Len(messages) + 2}
                 /\ messages'[Len(messages) + 1] =
                        ChatMessage("user", UserStr(Submitted))
                 /\ \A k \in (Len(messages) + 2)..Len(messages') :
                        messages'[k].role = "model"
          /\ ~Accepted =>
                 \/ Len(messages') = Len(messages)
                 \/ /\ pending.active /\ ~pending'.active
                    /\ Len(messages') = Len(messages) + 1
                    /\ messages[Len(messages)].role = "user"
                    /\ messages'[Len(messages')].role = "model"]_vars
    /\ [](/\ Cardinality({k \in DOMAIN messages : messages[k].role = "user"})
               = turns
          /\ \A k \in 1..(Len(messages) - 1) :
                 messages[k].role = "user" \/ messages[k + 1].role = "user")

\* Three turns were accepted, one of them answered by the apology, and a
\* timer of a stream has fired since.
C12_Witness ==
    /\ turns = 3
    /\ Len(messages) = 7
    /\ \E k \in DOMAIN messages : messages[k] = Apology
    /\ \E sid \in DOMAIN streams : streams[sid].i > StepSize(streams[sid].fullText)

\* Stream sid runs step() in this step: in the call of streamModelReply that
\* creates it, or when its timer fires.
Stepped(sid) ==
    /\ sid \in DOMAIN streams'
    /\ sid \in DOMAIN streams => streams'[sid].i # streams[sid].i

\* C13: a message already in the transcript changes only when a stream runs
\* a step, and then it is a model message, the one that stream appended and
\* the latest model message of the transcript; a user message never
\* changes.  A step whose target min(startIndex, length - 1) is not a model
\* message changes no message.
C13_OnlyOwnMessageRevealed ==
    [][/\ \A k \in DOMAIN messages :
              messages'[k] # messages[k] =>
                  /\ messages[k].role = "model"
                  /\ \E sid \in DOMAIN streams' :
                         Stepped(sid) /\ streams'[sid].appendedAt + 1 = k
                  /\ \A n \in (k + 1)..Len(messages') :
                         messages'[n].role = "user"
       /\ \A sid \in DOMAIN streams' :
              (/\ Stepped(sid)
               /\ messages'[StepTarget(streams'[sid].startIndex,
                                       Len(messages')) + 1].role # "model") =>
                  /\ \A k \in DOMAIN messages : messages'[k] = messages[k]
                  /\ sid \notin DOMAIN streams =>
                         messages'[Len(messages')] =
                             ChatMessage("model", EmptyStr)]_vars

\* A timer of the first stream fired after a second turn appended its
\* messages; the step's target is a user message.
C13_Witness ==
    /\ Len(streams) >= 2
    /\ event.op = "other"
    /\ streams[1].i > StepSize(streams[1].fullText)
    /\ timers # << >> /\ timers[Len(timers)] = 1
    /\ messages[StepTarget(streams[1].startIndex, Len(messages)) + 1].role = "user"

\* C14: at every step the message a stream appended, and any message a
\* step of the stream rewrites, holds a prefix of the stream's full text:
\* it is never longer than fullText and never shorter than it was before
\* the step.
C14_RevealedPrefixGrows ==
    [][\A sid \in DOMAIN streams' :
           LET fullText == streams'[sid].fullText
               own == streams'[sid].appendedAt + 1
           IN  /\ IsPrefix(messages'[own].content, fullText)
               /\ messages'[own].content.len <= fullText.len
               /\ sid \in DOMAIN streams =>
                      messages'[own].content.len >= messages[own].content.len
               /\ Stepped(sid) =>
                      \A k \in DOMAIN messages :
                          messages'[k] # messages[k] =>
                              /\ IsPrefix(messages'[k].content, fullText)
                              /\ messages'[k].content.len >=
                                     messages[k].content.len]_vars

\* A stream is between its first and its last step: a timer of it has fired
\* and another is pending.
C14_Witness ==
    \E sid \in DOMAIN streams :
        /\ streams[sid].i >= 2 * StepSize(streams[sid].fullText)
        /\ streams[sid].i <= streams[sid].fullText.len
        /\ \E k \in DOMAIN timers : timers[k] = sid
        /\ event.op = "other"

\* The intents of the six rules, in the order the claim numbers them.
RuleTypes ==
    <<"order_status", "shipping_eta", "return_policy", "refund_policy",
      "account_help", "escalate">>
\* The trigger of rule n matches the lower-cased text t.
Trigger(n, t) ==
    CASE n = 1 -> LeadThenTail(t, OrderStatusLead, OrderStatusTail)
      [] n = 2 -> LeadThenTail(t, ShippingEtaLead, ShippingEtaTail)
      [] n = 3 -> LeadThenTail(t, ReturnLead, ReturnTail)
      [] n = 4 -> LeadThenTail(t, RefundLead, RefundTail)
      [] n = 5 -> ContainsAny(t, AccountWords)
      [] n = 6 -> ContainsAny(t, EscalateWords)

\* C15: detectIntent returns the intent of the lowest-numbered rule whose
\* trigger matches the text, and unknown when none matches; in particular
\* a text that matches both the order-status and the shipping-ETA trigger
\* is classified order_status.
C15_FirstMatchWins ==
    probe # NoProbe =>
        LET t == toLowerCase(probe.text)
            hits == {n \in DOMAIN RuleTypes : Trigger(n, t)}
        IN  /\ (1 \in hits /\ 2 \in hits) => probe.intent.type = "order_status"
            /\ probe.intent.type =
                   IF hits = {}
                   THEN "unknown"
                   ELSE RuleTypes[CHOOSE n \in hits : \A m \in hits : n <= m]

\* A text made of words was classified that matches both the order-status
\* and the shipping-ETA trigger.
C15_Witness ==
    /\ probe # NoProbe
    /\ probe.text \in WordTexts
    /\ Trigger(1, toLowerCase(probe.text))
    /\ Trigger(2, toLowerCase(probe.text))
    /\ probe.intent.type = "order_status"

\* The bodies that ask for the missing fields.
OrderQuestion == <<"I can check that-please share your order ID (e.g., ORD-12345).">>
EtaQuestion == <<"Share your order ID and destination ZIP to estimate delivery.">>

\* C16: when a turn is classified order_status without an orderId, or
\* shipping_eta without an orderId or without a postalCode, dispatch returns
\* the tool's question, whatever the random draws, never a status or ETA
\* body; the turn hands that question (with its tone) to streamModelReply,
\* appends no apology, calls no model and leaves loading false.
C16_MissingFieldsAsked ==
    [][(Accepted /\ lastPath' # "ticket") =>
           \E intent \in {Classified}, text \in {Text} :
               LET noOrder == /\ intent.type = "order_status"
                              /\ intent.orderId = Undefined
                   noEta == /\ intent.type = "shipping_eta"
                            /\ \/ intent.orderId = Undefined
                               \/ intent.postalCode = Undefined
                   question == IF noOrder
                               THEN ToolResult("Order status", OrderQuestion)
                               ELSE ToolResult("Shipping ETA", EtaQuestion)
               IN  (noOrder \/ noEta) =>
                       /\ \A status \in Range(statusList), days \in EtaDays :
                              runToolForIntent(intent, status, days) = question
                       /\ lastPath' = "tool"
                       /\ Len(streams') = Len(streams) + 1
                       /\ Started.fullText.id = applyTone(toolReply(question), text)
                       /\ Len(messages') = Len(messages) + 2
                       /\ messages'[Len(messages')].role = "model"
                       /\ messages'[Len(messages')] # Apology
                       /\ ~loading'
                       /\ ~pending'.active
                       /\ calls'.model = calls.model]_vars

\* A turn classified shipping_eta with an order id and no postal code has
\* been answered, after a turn classified order_status with no order id.
C16_Witness ==
    /\ event.op = "handleSend"
    /\ lastPath = "tool"
    /\ lastIntentRef.type = "shipping_eta"
    /\ lastIntentRef.orderId # Undefined
    /\ lastIntentRef.postalCode = Undefined
    /\ Len(streams) = 2
    /\ streams[1].fullText.id = toolReply(ToolResult("Order status", OrderQuestion))

\* C17: detectIntent("Where is my order #ORD-99021?") is the order_status
\* intent with orderId "ORD-99021".
C17_OrderIdExtracted ==
    probe.text = <<"W", "h", "e", "r", "e", " ", "i", "s", " ", "m", "y", " ", "o", "r", "d", "e", "r", " ", "#", "O", "R", "D", "-", "9", "9", "0", "2", "1", "?">> =>
        /\ probe.intent.type = "order_status"
        /\ probe.intent.orderId = <<"O", "R", "D", "-", "9", "9", "0", "2", "1">>

\* The sentiment applyTone found, read off the opener of the text it
\* composed.
ToneOf(fullText) ==
    IF fullText.id # << >> /\ Head(fullText.id) = "I'm really sorry for the trouble. "
    THEN "negative"
    ELSE IF fullText.id # << >> /\ Head(fullText.id) = "Happy to hear that! "
    THEN "positive"
    ELSE "neutral"

\* C18: the sentiment applied to a turn's reply is decided by the two flags
\* of that turn's text alone, whatever turns came before: negative when
\* only a negative term is present, positive when only a positive term is
\* present, neutral when both or neither are.
C18_SentimentOfFlags ==
    [][Len(streams') = Len(streams) + 1 =>
           \E text \in {IF pending.active THEN pending.trimmed ELSE Text} :
               \E neg \in {HasNegative(text)}, pos \in {HasPositive(text)} :
                   /\ (neg /\ ~pos) => ToneOf(Started.fullText) = "negative"
                   /\ (pos /\ ~neg) => ToneOf(Started.fullText) = "positive"
                   /\ (neg /\ pos) => ToneOf(Started.fullText) = "neutral"
                   /\ (~neg /\ ~pos) => ToneOf(Started.fullText) = "neutral"]_vars

\* A text with both a negative and a positive term was answered without an
\* opener, right after a turn answered with the apologetic opener.
C18_Witness ==
    /\ Len(streams) = 2
    /\ event.op = "handleSend"
    /\ HasNegative(trim(event.input)) /\ HasPositive(trim(event.input))
    /\ ToneOf(streams[1].fullText) = "negative"
    /\ ToneOf(streams[2].fullText) = "neutral"

\* Stream sid has a timer pending.
Scheduled(sid) == \E k \in DOMAIN timers : timers[k] = sid

\* C19: every stream terminates.  With L the length of its text and
\* k = max(1, floor(L / 120)) >= 1, a stream has run n >= 1 steps, at the
\* offsets 0, k, ..., (n - 1) * k, the last of them at most L, so at most
\* floor(L / k) + 1 steps; it has a timer pending exactly until its last
\* step, which sets streamingIndex to null; after that it runs no step.
\* Whenever a stream is short of its last step, a state follows in which
\* every stream started by then is past it.
C19_StreamTerminates ==
    /\ [](\A sid \in DOMAIN streams :
             LET L == streams[sid].fullText.len
                 k == StepSize(streams[sid].fullText)
             IN  /\ k >= 1
                 /\ k = Max(1, L \div StepDivisor)
                 /\ \E n \in 1..(L + 1) :
                        /\ streams[sid].i = n * k
                        /\ (n - 1) * k <= L
                        /\ n <= (L \div k) + 1
                 /\ Scheduled(sid) <=> ~Finished(sid)
                 /\ Cardinality({m \in DOMAIN timers : timers[m] = sid}) <= 1)
    /\ [][\A sid \in DOMAIN streams' :
              /\ (Stepped(sid) /\ Finished(sid)') => streamingIndex' = Null
              /\ (sid \in DOMAIN streams /\ Finished(sid)) =>
                     streams'[sid] = streams[sid]]_vars
    /\ (\E sid \in DOMAIN streams : ~Finished(sid))
           ~> (\A sid \in DOMAIN streams : Finished(sid))

\* Two streams have run their last steps, the first of them after the second
\* was started.
C19_Witness ==
    /\ Len(streams) = 2
    /\ Finished(1) /\ Finished(2)
    /\ streams[1].fullText.len >= 2
    /\ timers = << >>
    /\ streamingIndex = Null

\* C20: streamingIndex is non-null exactly when some stream has a timer
\* pending.
C20_MarkerAgreesWithTimers ==
    streamingIndex # Null <=> \E sid \in DOMAIN streams : Scheduled(sid)

=============================================================================
